---- MODULE Spec2Model ----
(***************************************************************************)
(* State-machine model of the BrainTumorUploader React component           *)
(* (src/components/brain-tumor-uploader.tsx): file selection with          *)
(* asynchronous validation, upload with retry/backoff, cancellation and    *)
(* reset.                                                                  *)
(*                                                                         *)
(* One action is one task of the browser's event loop: a user event        *)
(* handler, a transport completion or a timer callback, together with all  *)
(* the promise continuations (microtasks) it triggers synchronously.  The  *)
(* rejection of an aborted request is delivered by a microtask that runs   *)
(* right after the handler that called abort(): it is a step of its own    *)
(* (AbortRejection) that takes priority over every other task.             *)
(*                                                                         *)
(* Not modelled: the progress display (progress, uploadedBytes,            *)
(* totalBytes, etaSeconds), the drag/paste indicators and focus moves,     *)
(* which no transition of Widget State reads.                              *)
(***************************************************************************)
EXTENDS Integers, Sequences, FiniteSets, TLC

VARIABLES
    status,         \* useState status: idle | ready | uploading | success | error
    file,           \* useState file (a file name, or NoFile)
    previewUrl,     \* useState previewUrl (object URL of the accepted file, or NoUrl)
    errors,         \* useState errors: the displayed violation list
    result,         \* useState result: <<>> is null, <<r>> a stored PredictResult
    controllerRef,  \* useRef: the AbortController of the latest attempt, or NoController
    startTimeRef,   \* useRef: start time of the latest attempt (TRUE = set)
    toast,          \* the last notification emitted through sonner
    pending,        \* setFileWithValidation calls suspended on the dimension check
    liveUrls,       \* the object URLs that are created and not revoked
    mounted,        \* the component is mounted (its teardown has not run)
    run,            \* one record per running handleUpload call (retry series)
    last            \* what the last step was: an upload started (and from which
                    \* status), a handleUpload call ended (and the transport's
                    \* log of it), a reset, or something else

vars == <<status, file, previewUrl, errors, result, controllerRef, startTimeRef,
          toast, pending, liveUrls, mounted, run, last>>

\* the component's own state
widget == <<status, file, previewUrl, errors, result, controllerRef, startTimeRef,
            toast, pending, liveUrls, mounted, run>>

-----------------------------------------------------------------------------
(* Bounds of the model *)

\* handleUpload calls that may be running at the same time
MaxSeries == 2

\* setFileWithValidation calls that may be suspended at the same time
MaxPending == 1

-----------------------------------------------------------------------------
(* Program constants *)

MAX_SIZE_BYTES == 10 * 1024 * 1024
ALLOWED_TYPES == {"image/jpeg", "image/png", "image/webp"}
MIN_WIDTH == 256
MIN_HEIGHT == 256

\* variant of the attempt cap
maxAttempts_4 == 3 + 1

\* uploadWithRetry(file, 3)
maxAttempts == 3

\* a File object: what the validator reads of it (name, declared type, byte
\* size) and what decoding its image gives (whether it loads, natural size)
File(name, type, size, loads, w, h) ==
    [name |-> name, type |-> type, size |-> size, loads |-> loads, w |-> w, h |-> h]

NoFile == File("null", "", 0, FALSE, 0, 0)
NoUrl == <<>>
Undefined == "undefined"
NoController == [series |-> 0, attempt |-> 0]

Series == 1..MaxSeries

-----------------------------------------------------------------------------
(* Candidate files: what the user can drop, paste or pick *)

ScanPng == File("scan.png", "image/png", 512 * 1024, TRUE, 512, 512)
MriJpg == File("mri.jpg", "image/jpeg", MAX_SIZE_BYTES, TRUE, 256, 256)
ThumbPng == File("thumb.png", "image/png", 4 * 1024, TRUE, 128, 512)

Candidates == {ScanPng, MriJpg, ThumbPng}

FileType(f) == f.type

FileSize(f) == f.size

\* outcome of decoding the image: whether it loads, and its natural size
FileDims(f) == [loads |-> f.loads, w |-> f.w, h |-> f.h]

\* URL.createObjectURL(f): a URL that no other object has.  The browser makes
\* every URL unique; the n-th URL here is the first one that is neither live
\* nor held by a suspended call
ObjectUrl(f, n) == <<"blob:", f.name, n>>

IdOf(u) == IF u = NoUrl THEN 0 ELSE u[3]

UsedIds(live, calls) ==
    {IdOf(x.url) : x \in live}
    \cup {IdOf(calls[i].previewUrl) : i \in DOMAIN calls}
    \cup {IdOf(calls[i].url) : i \in DOMAIN calls}

FreshId(live, calls) ==
    LET used == UsedIds(live, calls)
    IN  CHOOSE n \in 1..(Cardinality(used) + 1) :
            n \notin used /\ \A m \in 1..(n - 1) : m \in used

\* an entry of liveUrls: the URL and what it was created for
Live(u, use) == [url |-> u, use |-> use]

\* URL.revokeObjectURL(u)
revokeObjectURL(live, u) == {x \in live : x.url # u}

\* revokePreview, as the closure of a render in which previewUrl was captured
revokePreview(live, captured) ==
    IF captured # NoUrl THEN revokeObjectURL(live, captured) ELSE live

MsgType == "Unsupported file type"
MsgSize == "File is too large"
MsgSmall == "Image is too small"
MsgUnreadable == "Could not read image dimensions"
MsgSelect == "Please select an image before uploading."

\* variant of the size check that rejects a file of exactly the ceiling
validateBasic_sizeInclusive(f) ==
    (IF FileType(f) \notin ALLOWED_TYPES THEN <<MsgType>> ELSE <<>>)
    \o (IF FileSize(f) >= MAX_SIZE_BYTES THEN <<MsgSize>> ELSE <<>>)

validateBasic(f) ==
    (IF FileType(f) \notin ALLOWED_TYPES THEN <<MsgType>> ELSE <<>>)
    \o (IF FileSize(f) > MAX_SIZE_BYTES THEN <<MsgSize>> ELSE <<>>)

validateDimensions(f) ==
    LET dims == FileDims(f) IN
    IF ~dims.loads THEN <<MsgUnreadable>>
    ELSE IF dims.w < MIN_WIDTH \/ dims.h < MIN_HEIGHT THEN <<MsgSmall>>
    ELSE <<>>

\* setFileWithValidation: const all = [...basicErrs, ...dimErrs]
Validator(f) == validateBasic(f) \o validateDimensions(f)

\* the files offered to the validator: every combination of a declared type
\* (allowed, not allowed, missing), a size around the ceiling and a decode
\* outcome (fails, or loads with each side just below or at the minimum)
Types == {"image/jpeg", "image/png", "image/webp", "image/gif", ""}
Sizes == {MAX_SIZE_BYTES - 1, MAX_SIZE_BYTES, MAX_SIZE_BYTES + 1}
Sides == {MIN_WIDTH - 1, MIN_WIDTH}

AllFiles ==
    {File("upload", t, sz, TRUE, w, h) : t \in Types, sz \in Sizes, w \in Sides, h \in Sides}
    \cup {File("upload", t, sz, FALSE, 0, 0) : t \in Types, sz \in Sizes}

-----------------------------------------------------------------------------
(* The transport: what one axios.post can end with *)

HtmlPage == "<!DOCTYPE html><html><body>Not Found</body></html>"
PaddedHtml == "  <html><body>Bad Gateway</body></html>  "
TrimmedHtml == "<html><body>Bad Gateway</body></html>"
PlainLabel == "glioma"
EmptyText == ""
JsonText == "{\"prediction\": \"glioma\"}"
BadJson == "{oops"
BracketHtml == "[error] <html><body>Bad Gateway</body></html>"

\* response.data: a parsed object (isString = FALSE) or a text body
ObjectData(p) == [isString |-> FALSE, text |-> "", prediction |-> p]
TextData(t) == [isString |-> TRUE, text |-> t, prediction |-> Undefined]

CtJson == "application/json"
CtHtml == "text/html; charset=utf-8"
CtText == "text/plain"
CtProblem == "application/problem+json"
CtNone == ""

Response(ct, d) ==
    [kind |-> "response", status |-> 200, message |-> "", ct |-> ct, data |-> d]
HttpError(st, m) ==
    [kind |-> "http", status |-> st, message |-> m, ct |-> CtJson,
     data |-> ObjectData(Undefined)]
NetworkError ==
    [kind |-> "network", status |-> 0, message |-> "", ct |-> "",
     data |-> ObjectData(Undefined)]

ServerMessage == "Unsupported image (server message)"

\* what the transport answers in the upload state machine
Outcomes ==
    { Response(CtJson, ObjectData("glioma")),
      Response(CtJson, ObjectData(Undefined)),
      Response(CtHtml, TextData(HtmlPage)),
      Response(CtText, TextData(PaddedHtml)),
      Response(CtText, TextData(EmptyText)),
      HttpError(400, ""), HttpError(400, ServerMessage), HttpError(499, ""),
      HttpError(500, ""), HttpError(503, ""),
      NetworkError }

-----------------------------------------------------------------------------
(* Errors: what a failed attempt throws *)

MsgCanceled == "canceled"
MsgNetwork == "Network Error"
MsgHttp == "Request failed with status code"
MsgHtml == "The prediction endpoint returned HTML instead of JSON."
MsgFormat == "Unexpected response from server."
MsgDefault == "Prediction failed due to a network or server error."

\* an error object: axios errors carry a response (status, data.message) when
\* the server answered; status 0 stands for "no response"
Err(kind, st, srv, msg) ==
    [kind |-> kind, status |-> st, serverMessage |-> srv, message |-> msg]

CanceledError == Err("cancel", 0, "", MsgCanceled)

\* the error axios.post rejects with for a transport outcome that is no 2xx
AxiosError(o) ==
    IF o.kind = "network" THEN Err("network", 0, "", MsgNetwork)
    ELSE Err("http", o.status, o.message, MsgHttp)

\* the tables below give, for the texts of this model, what the string
\* functions of the code compute
Trim(t) == IF t = PaddedHtml THEN TrimmedHtml ELSE t
looksLikeHTML(t) == Trim(t) \in {HtmlPage, TrimmedHtml, BracketHtml}
StartsJson(t) == t \in {JsonText, BadJson, BracketHtml}
JSONparse(t) ==
    IF t = JsonText THEN [ok |-> TRUE, value |-> ObjectData("glioma")]
    ELSE [ok |-> FALSE, value |-> TextData(t)]
CtIsHtml(ct) == ct = CtHtml
CtIsJson(ct) == ct \in {CtJson, CtProblem}

\* variant of uploadOnce without the check of line 277
uploadOnce_noFormatCheck(res) ==
    LET trimmed == Trim(res.data.text)
        isHtml == looksLikeHTML(trimmed) \/ CtIsHtml(res.ct)
        looksJson == StartsJson(trimmed)
        parsed == JSONparse(trimmed)
        data == IF res.data.isString /\ looksJson /\ parsed.ok
                THEN parsed.value ELSE res.data
        prediction ==
            IF ~data.isString /\ data.prediction # Undefined THEN data.prediction
            ELSE IF data.isString THEN data.text
            ELSE Undefined
        isJson == CtIsJson(res.ct)
    IN  IF res.data.isString /\ ~looksJson /\ isHtml
        THEN [ok |-> FALSE, error |-> Err("error", 0, "", MsgHtml),
              result |-> [prediction |-> Undefined]]
        ELSE [ok |-> TRUE, error |-> Err("none", 0, "", ""),
              result |-> [prediction |-> prediction]]

\* uploadOnce after axios.post resolved with res: the stored result, or the
\* Error it throws
uploadOnce(res) ==
    LET trimmed == Trim(res.data.text)
        isHtml == looksLikeHTML(trimmed) \/ CtIsHtml(res.ct)
        looksJson == StartsJson(trimmed)
        parsed == JSONparse(trimmed)
        data == IF res.data.isString /\ looksJson /\ parsed.ok
                THEN parsed.value ELSE res.data
        prediction ==
            IF ~data.isString /\ data.prediction # Undefined THEN data.prediction
            ELSE IF data.isString THEN data.text
            ELSE Undefined
        isJson == CtIsJson(res.ct)
    IN  IF res.data.isString /\ ~looksJson /\ isHtml
        THEN [ok |-> FALSE, error |-> Err("error", 0, "", MsgHtml),
              result |-> [prediction |-> Undefined]]
        ELSE IF prediction \in {Undefined, ""} /\ ~isJson
        THEN [ok |-> FALSE, error |-> Err("error", 0, "", MsgFormat),
              result |-> [prediction |-> Undefined]]
        ELSE [ok |-> TRUE, error |-> Err("none", 0, "", ""),
              result |-> [prediction |-> prediction]]

\* what one attempt ends with, for transport outcome o
AttemptResult(o) ==
    IF o.kind = "response" THEN uploadOnce(o)
    ELSE [ok |-> FALSE, error |-> AxiosError(o), result |-> [prediction |-> Undefined]]

\* variant of the cancellation check that recognizes no error
IsCancel_never(err) == FALSE

\* uploadWithRetry's catch: axios.isCancel(err) || AbortError
IsCancel(err) == err.kind = "cancel"

\* variants of the status check
NonRetryable_anyStatus(err) == err.status # 0
NonRetryable_below400(err) == err.status # 0 /\ err.status < 400

\* uploadWithRetry's catch: if (status && status < 500) break
NonRetryable(err) == err.status # 0 /\ err.status < 500

\* Math.floor(Math.random() * 200)
Jitter == 0..199

Min(a, b) == IF a < b THEN a ELSE b

\* uploadWithRetry's catch: the delay that is waited after failed attempt number
\* attempt, in ms
backoffDelay(attempt, jitter) == Min(2000 * 2^(attempt - 1), 8000) + jitter

\* handleUpload's catch: the message that is displayed
ErrorMessage(err) ==
    IF err.serverMessage # "" THEN err.serverMessage
    ELSE IF err.message # "" THEN err.message
    ELSE MsgDefault

-----------------------------------------------------------------------------
(* All responses: every content-type with every body *)

ContentTypes == {CtJson, CtProblem, CtHtml, CtText, CtNone}

Texts == {HtmlPage, PaddedHtml, PlainLabel, EmptyText, JsonText, BadJson, BracketHtml}

Bodies ==
    {ObjectData("glioma"), ObjectData(""), ObjectData(Undefined)}
    \cup {TextData(t) : t \in Texts}

Responses == {Response(ct, d) : ct \in ContentTypes, d \in Bodies}

-----------------------------------------------------------------------------
(* Presenter: labels are sequences of characters *)

UpperCase == <<"A", "B", "C", "D", "E", "F", "G", "H", "I", "J", "K", "L", "M", "N", "O", "P", "Q", "R", "S", "T", "U", "V", "W", "X", "Y", "Z">>
LowerCase == <<"a", "b", "c", "d", "e", "f", "g", "h", "i", "j", "k", "l", "m", "n", "o", "p", "q", "r", "s", "t", "u", "v", "w", "x", "y", "z">>
Letters == {LowerCase[i] : i \in DOMAIN LowerCase}

\* an optional string: pred?: string
Label(cs) == [present |-> TRUE, text |-> cs]
NoLabel == [present |-> FALSE, text |-> <<>>]

toLowerCase(cs) ==
    [i \in DOMAIN cs |->
        IF \E k \in DOMAIN UpperCase : UpperCase[k] = cs[i]
        THEN LowerCase[CHOOSE k \in DOMAIN UpperCase : UpperCase[k] = cs[i]]
        ELSE cs[i]]

IsSpace(c) == c \in {" ", "\t", "\n"}

RECURSIVE trimStart(_)
trimStart(cs) ==
    IF cs # <<>> /\ IsSpace(Head(cs)) THEN trimStart(Tail(cs)) ELSE cs

RECURSIVE trimEnd(_)
trimEnd(cs) ==
    IF cs # <<>> /\ IsSpace(cs[Len(cs)])
    THEN trimEnd(SubSeq(cs, 1, Len(cs) - 1))
    ELSE cs

trim(cs) == trimEnd(trimStart(cs))

IsLetter(c) == c \in Letters

\* replace(/[^a-z]/g, '')
stripNonLetters(cs) == SelectSeq(cs, IsLetter)

\* String.prototype.includes
includes(cs, tok) ==
    \E i \in 0..(Len(cs) - Len(tok)) : SubSeq(cs, i + 1, i + Len(tok)) = tok

\* variant of normalizeLabel without toLowerCase()
normalizeLabel_caseSensitive(label) ==
    stripNonLetters(trim(IF label.present THEN label.text ELSE <<>>))

normalizeLabel(label) ==
    stripNonLetters(trim(toLowerCase(IF label.present THEN label.text ELSE <<>>)))

TokNoTumor == <<"n", "o", "t", "u", "m", "o", "r">>
TokNoTumour == <<"n", "o", "t", "u", "m", "o", "u", "r">>
TokNormal == <<"n", "o", "r", "m", "a", "l">>
TokHealthy == <<"h", "e", "a", "l", "t", "h", "y">>
TokNegative == <<"n", "e", "g", "a", "t", "i", "v", "e">>
TokAbsence == <<"a", "b", "s", "e", "n", "c", "e", "o", "f", "t", "u", "m", "o", "r">>

\* the kind of the band that classifyPrediction returns
classifyPrediction(pred) ==
    LET n == normalizeLabel(pred)
        isNoTumor ==
            \/ includes(n, TokNoTumor)
            \/ includes(n, TokNoTumour)
            \/ n = TokNormal
            \/ n = TokHealthy
            \/ includes(n, TokNegative)
            \/ includes(n, TokAbsence)
    IN  IF isNoTumor THEN "negative"
        ELSE IF pred.present /\ pred.text # <<>> THEN "positive"
        ELSE "unknown"

-----------------------------------------------------------------------------
(* The transport's log: how each attempt of a retry series ended, in the     *)
(* words of the retry policy                                                *)

Class(o) ==
    IF o.kind = "network" THEN "transient"
    ELSE IF o.kind = "http" THEN (IF o.status >= 500 THEN "transient" ELSE "client")
    ELSE IF uploadOnce(o).ok THEN "ok" ELSE "format"

-----------------------------------------------------------------------------
(* State *)

NoErr == Err("none", 0, "", "")

\* values of last
Other == [ev |-> "other", from |-> "", log |-> <<>>]
Started(st) == [ev |-> "start", from |-> st, log |-> <<>>]
Ended(log, f) == [ev |-> "end", from |-> "", log |-> log, f |-> f]
Reset == [ev |-> "reset", from |-> "", log |-> <<>>]
Validated(f, newer) == [ev |-> "validated", f |-> f, newer |-> newer]
Canceled == [ev |-> "cancel", from |-> "", log |-> <<>>]
Called(fn, arg, ret) == [ev |-> "call", fn |-> fn, arg |-> arg, ret |-> ret]

\* a free slot: no handleUpload call is running in it
IdleRun == [pc |-> "idle", attempt |-> 0, f |-> NoFile, lastError |-> NoErr, log |-> <<>>]

Init ==
    /\ status = "idle"
    /\ file = NoFile
    /\ previewUrl = NoUrl
    /\ errors = <<>>
    /\ result = <<>>
    /\ controllerRef = NoController
    /\ startTimeRef = FALSE
    /\ toast = "none"
    /\ pending = <<>>
    /\ liveUrls = {}
    /\ mounted = TRUE
    /\ run = [s \in Series |-> IdleRun]
    /\ last = Other

\* the request that controller c was created for is still outstanding
InFlight(r, c) ==
    /\ c # NoController
    /\ r[c.series].pc = "inflight"
    /\ r[c.series].attempt = c.attempt

\* controllerRef.current?.abort(): the outstanding request of that controller,
\* if any, is rejected with a CanceledError (delivered by AbortRejection).  The
\* log notes who aborted the attempt: "canceled" for handleCancel, "reset" for
\* resetAll
Abort(r, c, by) ==
    IF InFlight(r, c)
    THEN [r EXCEPT ![c.series].pc = "aborted",
                   ![c.series].log = Append(r[c.series].log, by)]
    ELSE r

\* a promise rejection is queued: it runs before any other task
MicrotaskPending == \E s \in Series : run[s].pc = "aborted"

\* the series that are running (a request outstanding, or a backoff wait)
Running == {s \in Series : run[s].pc # "idle"}

-----------------------------------------------------------------------------
(* File selection: onFileInputChange, onDrop, onPaste, useSample *)

\* a suspended setFileWithValidation call: its file, the previewUrl of the
\* render whose handler made the call (what its revokePreview will revoke),
\* and the object URL that validateDimensions created for the decode.  newer
\* notes the file of the most recently made call, among the calls made after
\* this one, that has already completed with an accepted file (NoFile if none)
Call(f, captured, url) ==
    [f |-> f, previewUrl |-> captured, url |-> url, newer |-> NoFile]

\* the suspended calls after the i-th one has completed.  When it accepted its
\* file f, the calls made before it that no later call has overtaken yet note
\* that f is newer than theirs
Remaining(calls, i, accepted) ==
    [j \in 1..(Len(calls) - 1) |->
        IF j < i
        THEN (IF accepted /\ calls[i].newer = NoFile
              THEN [calls[j] EXCEPT !.newer = calls[i].f]
              ELSE calls[j])
        ELSE calls[j + 1]]

\* the handler runs validateBasic, then validateDimensions up to its await:
\* it creates an object URL for the file and suspends on the image decode
selectFile(f) ==
    /\ ~MicrotaskPending
    /\ mounted
    /\ LET url == ObjectUrl(f, FreshId(liveUrls, pending))
       IN  /\ pending' = Append(pending, Call(f, previewUrl, url))
           /\ liveUrls' = liveUrls \cup {Live(url, "decode")}
    /\ UNCHANGED <<status, file, previewUrl, errors, result, controllerRef,
                   startTimeRef, toast, mounted, run>>
    /\ last' = Other

\* variant of setFileWithValidation that selects the file it rejects
setFileWithValidation_selectsRejected(i) ==
    /\ ~MicrotaskPending
    /\ i \in DOMAIN pending
    /\ LET call == pending[i]
           f == call.f
           rest == Remaining(pending, i, FALSE)
           decoded == IF FileDims(f).loads
                      THEN revokeObjectURL(liveUrls, call.url)
                      ELSE liveUrls
           all == Validator(f)
           revoked == revokePreview(decoded, call.previewUrl)
           url == ObjectUrl(f, FreshId(revoked, rest))
       IN  /\ IF Len(all) > 0
              THEN /\ errors' = all
                   /\ status' = "error"
                   /\ liveUrls' = decoded
                   /\ file' = f
                   /\ UNCHANGED previewUrl
              ELSE /\ liveUrls' = revoked \cup {Live(url, "preview")}
                   /\ errors' = <<>>
                   /\ file' = f
                   /\ previewUrl' = url
                   /\ status' = "ready"
           /\ pending' = Remaining(pending, i, Len(all) = 0)
           /\ last' = Validated(f, call.newer)
    /\ UNCHANGED <<result, controllerRef, startTimeRef, toast, mounted, run>>

\* variant of setFileWithValidation without setErrors([]) on acceptance
setFileWithValidation_keepsErrors(i) ==
    /\ ~MicrotaskPending
    /\ i \in DOMAIN pending
    /\ LET call == pending[i]
           f == call.f
           rest == Remaining(pending, i, FALSE)
           decoded == IF FileDims(f).loads
                      THEN revokeObjectURL(liveUrls, call.url)
                      ELSE liveUrls
           all == Validator(f)
           revoked == revokePreview(decoded, call.previewUrl)
           url == ObjectUrl(f, FreshId(revoked, rest))
       IN  /\ IF Len(all) > 0
              THEN /\ errors' = all
                   /\ status' = "error"
                   /\ liveUrls' = decoded
                   /\ UNCHANGED <<file, previewUrl>>
              ELSE /\ liveUrls' = revoked \cup {Live(url, "preview")}
                   /\ UNCHANGED errors
                   /\ file' = f
                   /\ previewUrl' = url
                   /\ status' = "ready"
           /\ pending' = Remaining(pending, i, Len(all) = 0)
           /\ last' = Validated(f, call.newer)
    /\ UNCHANGED <<result, controllerRef, startTimeRef, toast, mounted, run>>

\* the image of the i-th suspended call has loaded (or failed to): the rest of
\* validateDimensions (which revokes its URL when the image loaded), then the
\* rest of setFileWithValidation.  After the teardown the setters have no
\* effect on what is displayed; the model keeps writing the state variables,
\* which nothing reads any more
setFileWithValidation(i) ==
    /\ ~MicrotaskPending
    /\ i \in DOMAIN pending
    /\ LET call == pending[i]
           f == call.f
           rest == Remaining(pending, i, FALSE)
           decoded == IF FileDims(f).loads
                      THEN revokeObjectURL(liveUrls, call.url)
                      ELSE liveUrls
           all == Validator(f)
           revoked == revokePreview(decoded, call.previewUrl)
           url == ObjectUrl(f, FreshId(revoked, rest))
       IN  /\ IF Len(all) > 0
              THEN /\ errors' = all
                   /\ status' = "error"
                   /\ liveUrls' = decoded
                   /\ UNCHANGED <<file, previewUrl>>
              ELSE /\ liveUrls' = revoked \cup {Live(url, "preview")}
                   /\ errors' = <<>>
                   /\ file' = f
                   /\ previewUrl' = url
                   /\ status' = "ready"
           /\ pending' = Remaining(pending, i, Len(all) = 0)
           /\ last' = Validated(f, call.newer)
    /\ UNCHANGED <<result, controllerRef, startTimeRef, toast, mounted, run>>

-----------------------------------------------------------------------------
(* Reset *)

\* variant of resetAll without setFile(null) and setPreviewUrl(null)
resetAll_keepsFile ==
    /\ ~MicrotaskPending
    /\ mounted
    /\ file # NoFile \/ status # "uploading"
    /\ run' = Abort(run, controllerRef, "reset")
    /\ liveUrls' = revokePreview(liveUrls, previewUrl)
    /\ status' = "idle"
    /\ errors' = <<>>
    /\ result' = <<>>
    /\ startTimeRef' = FALSE
    /\ UNCHANGED <<file, previewUrl, controllerRef, toast, pending, mounted>>
    /\ last' = Reset

resetAll ==
    /\ ~MicrotaskPending
    /\ mounted
       \* "Remove image" is rendered while a file is selected; "Reset" is
       \* disabled while uploading
    /\ file # NoFile \/ status # "uploading"
    /\ run' = Abort(run, controllerRef, "reset")
    /\ liveUrls' = revokePreview(liveUrls, previewUrl)
    /\ file' = NoFile
    /\ previewUrl' = NoUrl
    /\ status' = "idle"
    /\ errors' = <<>>
    /\ result' = <<>>
    /\ startTimeRef' = FALSE
    /\ UNCHANGED <<controllerRef, toast, pending, mounted>>
    /\ last' = Reset

\* the cleanup of the mount effect (useEffect with no dependencies): it is the
\* closure of the first render, in which previewUrl is its initial value
teardown ==
    /\ ~MicrotaskPending
    /\ mounted
    /\ run' = Abort(run, controllerRef, "teardown")
    /\ liveUrls' = revokePreview(liveUrls, NoUrl)
    /\ mounted' = FALSE
    /\ UNCHANGED <<status, file, previewUrl, errors, result, controllerRef,
                   startTimeRef, toast, pending>>
    /\ last' = Other

-----------------------------------------------------------------------------
(* Upload *)

ctaDisabled == status = "uploading" \/ (file = NoFile /\ status # "error")

\* one uploadOnce call up to its await: a new controller, a new request
StartAttempt(s, n) ==
    /\ controllerRef' = [series |-> s, attempt |-> n]
    /\ startTimeRef' = TRUE

\* handleUpload's finally block, and the end of the call
EndRun(s, log) ==
    /\ controllerRef' = NoController
    /\ startTimeRef' = FALSE
    /\ run' = [run EXCEPT ![s] = IdleRun]
    /\ last' = Ended(log, run[s].f)

\* handleUpload after uploadWithRetry returned
UploadSucceeded(s, log) ==
    /\ status' = "success"
    /\ toast' = "success"
    /\ EndRun(s, log)
    /\ UNCHANGED <<file, previewUrl, errors, pending, liveUrls, mounted>>

\* variant of the catch block without setStatus("error")
UploadFailed_keepsStatus(s, err, log) ==
    /\ errors' = <<ErrorMessage(err)>>
    /\ toast' = "error"
    /\ EndRun(s, log)
    /\ UNCHANGED <<status, file, previewUrl, result, pending, liveUrls, mounted>>

\* handleUpload's catch block
UploadFailed(s, err, log) ==
    /\ status' = "error"
    /\ errors' = <<ErrorMessage(err)>>
    /\ toast' = "error"
    /\ EndRun(s, log)
    /\ UNCHANGED <<file, previewUrl, result, pending, liveUrls, mounted>>

\* uploadWithRetry's catch block for the error err of attempt run[s].attempt:
\* a cancellation is rethrown, a status below 500 breaks out of the loop (and
\* the error is thrown after it); anything else waits for the backoff delay
Catch(s, err, log) ==
    IF IsCancel(err) \/ NonRetryable(err)
    THEN UploadFailed(s, err, log)
    ELSE /\ run' = [run EXCEPT ![s].pc = "backoff",
                               ![s].lastError = err,
                               ![s].log = log]
         /\ UNCHANGED <<status, file, previewUrl, errors, result,
                        controllerRef, startTimeRef, toast, pending, liveUrls, mounted>>
         /\ last' = Other

\* variant of handleUpload without setResult(null)
handleUpload_keepsResult ==
    /\ ~MicrotaskPending
    /\ mounted
    /\ (status # "uploading" /\ ~ctaDisabled) \/ status = "error"
    /\ IF file = NoFile
       THEN /\ errors' = <<MsgSelect>>
            /\ status' = "error"
            /\ UNCHANGED <<file, previewUrl, result, controllerRef, startTimeRef,
                           toast, pending, liveUrls, mounted, run>>
            /\ last' = Other
       ELSE \E s \in Series :
            /\ run[s].pc = "idle"
            /\ \A t \in Series : t < s => run[t].pc # "idle"
            /\ status' = "uploading"
            /\ errors' = <<>>
            /\ toast' = "start"
            /\ run' = [run EXCEPT ![s] = [pc |-> "inflight", attempt |-> 1,
                                          f |-> file, lastError |-> NoErr,
                                          log |-> <<>>]]
            /\ StartAttempt(s, 1)
            /\ UNCHANGED <<file, previewUrl, result, pending, liveUrls, mounted>>
            /\ last' = Started(status)

\* the footer button (bound to handleUpload unless uploading) or "Try again"
handleUpload ==
    /\ ~MicrotaskPending
    /\ mounted
    /\ (status # "uploading" /\ ~ctaDisabled) \/ status = "error"
    /\ IF file = NoFile
       THEN /\ errors' = <<MsgSelect>>
            /\ status' = "error"
            /\ UNCHANGED <<file, previewUrl, result, controllerRef, startTimeRef,
                           toast, pending, liveUrls, mounted, run>>
            /\ last' = Other
       ELSE \E s \in Series :
            /\ run[s].pc = "idle"
            /\ \A t \in Series : t < s => run[t].pc # "idle"
            /\ status' = "uploading"
            /\ result' = <<>>
            /\ errors' = <<>>
            /\ toast' = "start"
            /\ run' = [run EXCEPT ![s] = [pc |-> "inflight", attempt |-> 1,
                                          f |-> file, lastError |-> NoErr,
                                          log |-> <<>>]]
            /\ StartAttempt(s, 1)
            /\ UNCHANGED <<file, previewUrl, pending, liveUrls, mounted>>
            /\ last' = Started(status)

\* handleCancel, invoked while Widget State is uploading: that is the state in
\* which the footer button is bound to it (onClick, line 591).  The same
\* button is rendered with disabled = ctaDisabled (line 592), which is true in
\* that state, so a click on the rendered button does not get here; the
\* action describes what the handler does when it is called in the state it
\* is bound for.
handleCancel ==
    /\ ~MicrotaskPending
    /\ mounted
    /\ status = "uploading"
    /\ run' = Abort(run, controllerRef, "canceled")
    /\ controllerRef' = NoController
    /\ status' = "ready"
    /\ toast' = "canceled"
    /\ UNCHANGED <<file, previewUrl, errors, result, startTimeRef, pending, liveUrls, mounted>>
    /\ last' = Canceled

\* the request of series s completes with outcome o: the rest of uploadOnce,
\* then uploadWithRetry's try/catch, then (when the series ends) handleUpload
requestCompletes(s, o) ==
    /\ ~MicrotaskPending
    /\ run[s].pc = "inflight"
    /\ LET res == AttemptResult(o)
           log == Append(run[s].log, Class(o))
       IN  IF res.ok
           THEN /\ result' = <<res.result>>
                /\ UploadSucceeded(s, log)
           ELSE Catch(s, res.error, log)

\* the backoff timer of series s fires: the while loop goes round, or ends
backoffElapsed(s) ==
    /\ ~MicrotaskPending
    /\ run[s].pc = "backoff"
    /\ IF run[s].attempt < maxAttempts
       THEN /\ run' = [run EXCEPT ![s].pc = "inflight",
                                  ![s].attempt = run[s].attempt + 1]
            /\ StartAttempt(s, run[s].attempt + 1)
            /\ UNCHANGED <<status, file, previewUrl, errors, result, toast,
                           pending, liveUrls, mounted>>
            /\ last' = Other
       ELSE UploadFailed(s, run[s].lastError, run[s].log)

\* the rejection of the aborted request of series s is delivered:
\* uploadWithRetry rethrows it, handleUpload's catch handles it
AbortRejection(s) ==
    /\ run[s].pc = "aborted"
    /\ Catch(s, CanceledError, run[s].log)

-----------------------------------------------------------------------------

\* the files offered to the widget in the upload state machine: one that
\* passes validation and one that fails it
Selectable == {ScanPng, ThumbPng}

Next ==
    \/ \E f \in Selectable : Len(pending) < MaxPending /\ selectFile(f)
    \/ \E i \in 1..MaxPending : setFileWithValidation(i)
    \/ resetAll
    \/ handleUpload
    \/ handleCancel
    \/ \E s \in Series, o \in Outcomes : requestCompletes(s, o)
    \/ \E s \in Series : backoffElapsed(s)
    \/ \E s \in Series : AbortRejection(s)

Spec == Init /\ [][Next]_vars

-----------------------------------------------------------------------------
(* The same machine under fairness, with one transport outcome per kind      *)
(* (success, 4xx, 5xx, network failure, malformed response; abort comes from *)
(* handleCancel and resetAll) and one accepted file.                         *)
(* Fairness: the transport answers every outstanding request, every backoff  *)
(* timer fires, and every queued promise rejection is delivered.             *)

FairOutcomes ==
    { Response(CtJson, ObjectData("glioma")),
      Response(CtHtml, TextData(HtmlPage)),
      HttpError(400, ""), HttpError(503, ""),
      NetworkError }

FairNext ==
    \/ Len(pending) < MaxPending /\ selectFile(ScanPng)
    \/ \E i \in 1..MaxPending : setFileWithValidation(i)
    \/ resetAll
    \/ handleUpload
    \/ handleCancel
    \/ \E s \in Series, o \in FairOutcomes : requestCompletes(s, o)
    \/ \E s \in Series : backoffElapsed(s)
    \/ \E s \in Series : AbortRejection(s)

Fairness ==
    \A s \in Series :
        /\ WF_vars(\E o \in FairOutcomes : requestCompletes(s, o))
        /\ WF_vars(backoffElapsed(s))
        /\ WF_vars(AbortRejection(s))

FairSpec == Init /\ [][FairNext]_vars /\ Fairness

-----------------------------------------------------------------------------
(* The validator alone: every file of AllFiles can be offered, in any state  *)
(* that selections and resets lead to.  A file whose image does not decode   *)
(* leaves the object URL of its dimension check behind; MaxLive bounds how   *)
(* many object URLs may be live when a file is offered.                      *)

MaxLive == 3

ValidatorNext ==
    \/ \E f \in AllFiles :
          /\ Len(pending) < MaxPending
          /\ Cardinality(liveUrls) < MaxLive
          /\ selectFile(f)
    \/ \E i \in 1..MaxPending : setFileWithValidation(i)
    \/ resetAll

ValidatorSpec == Init /\ [][ValidatorNext]_vars

-----------------------------------------------------------------------------
(* The functions of the component on their own: response normalization      *)
(* (uploadOnce after the response arrived), label classification and the    *)
(* backoff delay, each applied to every input of a bounded set.  last holds  *)
(* the function, its argument and what it returned.                          *)

ToUpper(c) == UpperCase[CHOOSE k \in DOMAIN LowerCase : LowerCase[k] = c]

\* cs with the i-th letter in upper case where mask[i + off] is set
Cased(cs, mask, off) ==
    [i \in DOMAIN cs |-> IF mask[i + off] THEN ToUpper(cs[i]) ELSE cs[i]]

Separators == {<<>>, <<" ">>, <<" ", " ">>, <<"_">>, <<"-">>}
Pads == {<<>>, <<" ">>}

\* the spellings of "No Tumor": every casing, separator and padding
NoTumorSpellings ==
    {pad \o Cased(<<"n", "o">>, mask, 0) \o sep \o Cased(<<"t", "u", "m", "o", "r">>, mask, 2) \o pad :
        mask \in [1..7 -> BOOLEAN], sep \in Separators, pad \in Pads}

ListedVariants ==
    { <<"n", "o", "r", "m", "a", "l">>, <<"N", "o", "r", "m", "a", "l">>, <<"h", "e", "a", "l", "t", "h", "y">>, <<"H", "e", "a", "l", "t", "h", "y">>,
      <<"n", "e", "g", "a", "t", "i", "v", "e">>, <<"N", "e", "g", "a", "t", "i", "v", "e">>,
      <<"a", "b", "s", "e", "n", "c", "e", " ", "o", "f", " ", "t", "u", "m", "o", "r">>, <<"A", "b", "s", "e", "n", "c", "e", " ", "o", "f", " ", "T", "u", "m", "o", "r">> }

TumorLabels == { <<"g", "l", "i", "o", "m", "a">>, <<"M", "e", "n", "i", "n", "g", "i", "o", "m", "a">>, <<"p", "i", "t", "u", "i", "t", "a", "r", "y">>, <<"1", "2", "3">> }

\* the labels handed to classifyPrediction, each with what it says: that no
\* tumor was found, something else, or nothing (no label)
LabelInputs ==
    {[label |-> Label(cs), says |-> "no tumor"] : cs \in NoTumorSpellings \cup ListedVariants}
    \cup {[label |-> Label(cs), says |-> "other"] : cs \in TumorLabels}
    \cup {[label |-> Label(<<>>), says |-> "nothing"], [label |-> NoLabel, says |-> "nothing"]}

normalizeResponse(res) ==
    /\ last' = Called("uploadOnce", res, uploadOnce(res))
    /\ UNCHANGED widget

presentLabel(in) ==
    /\ last' = Called("classifyPrediction", in, classifyPrediction(in.label))
    /\ UNCHANGED widget

drawDelay(attempt, jitter) ==
    /\ last' = Called("backoffDelay", <<attempt, jitter>>, backoffDelay(attempt, jitter))
    /\ UNCHANGED widget

FunctionsNext ==
    \/ \E res \in Responses : normalizeResponse(res)
    \/ \E in \in LabelInputs : presentLabel(in)
    \/ \E attempt \in 1..maxAttempts, jitter \in Jitter : drawDelay(attempt, jitter)

FunctionsSpec == Init /\ [][FunctionsNext]_vars

-----------------------------------------------------------------------------
(* The lifetime of the preview: selections that may overlap (up to           *)
(* MaxOverlap validations suspended at once), resets, and the teardown of    *)
(* the component.                                                            *)

MaxOverlap == 2

PreviewNext ==
    \/ \E f \in Candidates :
          /\ Len(pending) < MaxOverlap
          /\ Cardinality(liveUrls) < MaxLive
          /\ selectFile(f)
    \/ \E i \in 1..MaxOverlap : setFileWithValidation(i)
    \/ resetAll
    \/ teardown

PreviewSpec == Init /\ [][PreviewNext]_vars

-----------------------------------------------------------------------------
(* Replacing the file during an upload: two files that pass validation, a    *)
(* transport that answers with a prediction or fails transiently, no reset   *)
(* and no cancellation.                                                      *)

ReplaceOutcomes == {Response(CtJson, ObjectData("glioma")), HttpError(503, "")}

ReplaceNext ==
    \/ \E f \in {ScanPng, MriJpg} : Len(pending) < MaxPending /\ selectFile(f)
    \/ \E i \in 1..MaxPending : setFileWithValidation(i)
    \/ handleUpload
    \/ \E s \in Series, o \in ReplaceOutcomes : requestCompletes(s, o)
    \/ \E s \in Series : backoffElapsed(s)

ReplaceSpec == Init /\ [][ReplaceNext]_vars

-----------------------------------------------------------------------------
(* Properties *)

Last(l) == l[Len(l)]
Entries(l) == {l[i] : i \in DOMAIN l}
AllTransient(l) == \A i \in DOMAIN l : l[i] = "transient"

\* a handleUpload call has just ended, and its last attempt ended as c
EndedWith(c) == last.ev = "end" /\ Len(last.log) > 0 /\ Last(last.log) = c

\* C1: when the user cancels (handleCancel) while a request is in flight, then
\* once handleUpload has handled the rejection of the aborted request, Widget
\* State is ready, not error.
C1_CancelEndsReady == EndedWith("canceled") => status = "ready"

\* C2: a canceled upload is no error: once the cancellation has been handled,
\* the violation list holds no message and the last notification is the
\* neutral cancellation notice, not toast.error.
C2_CancelIsNoError == EndedWith("canceled") => (errors = <<>> /\ toast = "canceled")

\* C3: an upload issues at most 3 requests; when all 3 attempts fail
\* transiently (no response, or status >= 500) the failure is surfaced: Widget
\* State is error, with the failure's message and an error notification.
C3_AtMostThreeAttempts ==
    /\ \A s \in Series : run[s].attempt <= 3 /\ Len(run[s].log) <= 3
    /\ last.ev = "end" => Len(last.log) <= 3
    /\ (last.ev = "end" /\ last.log = <<"transient", "transient", "transient">>)
          => /\ status = "error"
             /\ errors \in {<<MsgNetwork>>, <<MsgHttp>>}
             /\ toast = "error"

C3_Witness ==
    /\ last.ev = "end"
    /\ last.log = <<"transient", "transient", "transient">>
    /\ status = "error"

\* C4: when the transport fails transiently on the first k attempts (k in
\* {0,1,2}) and then returns a valid prediction, the upload ends in success
\* after exactly k+1 attempts: no upload gives up after fewer than 3 transient
\* failures, every attempt issues one request, and the attempt that gets the
\* prediction stores it and sets Widget State to success.
C4_SucceedsAfterTransientFailures ==
    /\ \A s \in Series :
          /\ run[s].pc = "inflight" => run[s].attempt = Len(run[s].log) + 1
          /\ run[s].pc = "backoff" => run[s].attempt = Len(run[s].log)
    /\ (last.ev = "end" /\ Len(last.log) > 0 /\ AllTransient(last.log))
          => Len(last.log) = 3
    /\ \A k \in 0..2 :
          (/\ last.ev = "end"
           /\ Len(last.log) = k + 1
           /\ AllTransient(SubSeq(last.log, 1, k))
           /\ last.log[k + 1] = "ok")
          => (status = "success" /\ Len(result) = 1 /\ toast = "success")

C4_Witness ==
    /\ last.ev = "end"
    /\ last.log = <<"transient", "transient", "ok">>
    /\ status = "success"
    /\ result = <<[prediction |-> "glioma"]>>

\* C5: an attempt that fails with a status below 500 is the last attempt of
\* its upload, whatever the earlier attempts ended with: no upload keeps
\* running (no backoff, no further request) after such a failure, and the
\* failure is surfaced at once (Widget State error, error notification).
C5_ClientErrorEndsUpload ==
    /\ \A s \in Series : "client" \notin Entries(run[s].log)
    /\ last.ev = "end" =>
          \A i \in DOMAIN last.log :
              last.log[i] = "client" =>
                  /\ i = Len(last.log)
                  /\ status = "error"
                  /\ errors \in {<<MsgHttp>>, <<ServerMessage>>}
                  /\ toast = "error"

C5_Witness ==
    /\ last.ev = "end"
    /\ last.log = <<"transient", "client">>
    /\ status = "error"
    /\ errors = <<ServerMessage>>

\* C6: a response that uploadOnce's normalization rejects (HTML body,
\* unrecognized shape) is surfaced without retry: no upload keeps running (no
\* backoff, no further request) after such a failure.
C6_FormatFailureNotRetried ==
    \A s \in Series : "format" \notin Entries(run[s].log)

\* C7: at most one upload (outstanding request or running retry series) at
\* any time.
C7_AtMostOneUpload == Cardinality(Running) <= 1

\* C8: every transition into uploading has ready as its source state.
C8_UploadingOnlyFromReady == last.ev = "start" => last.from = "ready"

\* C8 (amended): every transition into uploading has ready, success or error
\* as its source state (never idle, never uploading), and a file is selected.
C8_UploadingFromReadySuccessError ==
    last.ev = "start" =>
        /\ last.from \in {"ready", "success", "error"}
        /\ status = "uploading"
        /\ file # NoFile

C8_Witness == last.ev = "start" /\ last.from \in {"success", "error"}

\* C9: resetAll yields Widget State idle with no file, no preview and no
\* in-flight request, from any state, and that state stays: the rejection of a
\* request that the reset aborted does not change it, so that a second reset
\* in succession finds nothing to change.
C9_ResetYieldsIdle ==
    /\ last.ev = "reset" =>
          /\ status = "idle"
          /\ file = NoFile
          /\ previewUrl = NoUrl
          /\ \A s \in Series : run[s].pc # "inflight"
    /\ EndedWith("reset") =>
          /\ status = "idle"
          /\ errors = <<>>

\* C10: whenever Widget State is uploading, it eventually is success, error
\* or ready, for every sequence of transport outcomes.
C10_LeavesUploading == (status = "uploading") ~> (status \in {"success", "error", "ready"})

C10_Witness ==
    /\ last.ev = "end"
    /\ last.log = <<"transient", "format", "transient">>
    /\ status = "error"

\* C11: the violation list of every validated file holds the type message
\* iff the declared type is not image/jpeg, image/png or image/webp, the size
\* message iff the size exceeds 10 MiB, the could-not-read message iff the
\* image does not decode, the too-small message iff it decodes with a side
\* below 256, and nothing else, in the order type, size, dimensions.
C11_Rank(m) ==
    CASE m = MsgType -> 1
      [] m = MsgSize -> 2
      [] m \in {MsgUnreadable, MsgSmall} -> 3

C11_AllViolationsCollected ==
    last.ev = "validated" =>
        LET f == last.f
            msgs == Entries(errors)
        IN  /\ MsgType \in msgs <=> f.type \notin {"image/jpeg", "image/png", "image/webp"}
            /\ MsgSize \in msgs <=> f.size > 10 * 1024 * 1024
            /\ MsgUnreadable \in msgs <=> ~f.loads
            /\ MsgSmall \in msgs <=> (f.loads /\ (f.w < 256 \/ f.h < 256))
            /\ msgs \subseteq {MsgType, MsgSize, MsgUnreadable, MsgSmall}
            /\ \A i, j \in DOMAIN errors :
                  i < j => C11_Rank(errors[i]) < C11_Rank(errors[j])

C11_Witness ==
    /\ last.ev = "validated"
    /\ last.f.type = "image/gif"
    /\ errors = <<MsgType, MsgSize, MsgSmall>>

\* C12: a completed validation determines Widget State, whatever the state
\* before it: with violations, Widget State is error and the displayed list
\* is exactly the violation list; without, Widget State is ready, the list is
\* empty and the validated file is the selected file.
C12_ValidationDeterminesState ==
    last.ev = "validated" =>
        IF Validator(last.f) # <<>>
        THEN status = "error" /\ errors = Validator(last.f)
        ELSE status = "ready" /\ errors = <<>> /\ file = last.f

C12_Witness ==
    /\ last.ev = "validated"
    /\ status = "ready"
    /\ file = ScanPng
    /\ Running # {}

\* C13: every response whose trimmed text body has an HTML document marker, or
\* whose content-type declares HTML, makes uploadOnce fail with the
\* endpoint/configuration message, and no result is stored for it.
C13_HasHtmlMarker(d) == d.isString /\ d.text \in {HtmlPage, PaddedHtml, BracketHtml}

C13_HtmlIsConfigurationError ==
    (last.ev = "call" /\ last.fn = "uploadOnce") =>
        ((C13_HasHtmlMarker(last.arg.data) \/ last.arg.ct = CtHtml) =>
            /\ ~last.ret.ok
            /\ last.ret.error.message = MsgHtml
            /\ last.ret.result.prediction = Undefined)

\* C14: a response is stored only if a non-empty prediction string resolved
\* from it or its content-type declared JSON; a response with no usable
\* prediction string and a non-JSON content-type fails with the
\* unexpected-response-format error, and no result is stored.
C14_Resolved(d) ==
    IF ~d.isString THEN d.prediction
    ELSE IF d.text = JsonText THEN "glioma"
    ELSE d.text

C14_Usable(d) == C14_Resolved(d) \notin {Undefined, ""}

C14_DeclaresJson(ct) == ct \in {CtJson, CtProblem}

C16_DelayOnlyBeforeRetry ==
    \A s \in Series :
        run[s].pc = "backoff" => (1 <= run[s].attempt /\ run[s].attempt < 3)

\* C16, the length of the delay: after failed attempt n it is
\* min(2000 * 2^(n-1), 8000) ms plus a jitter below 200 ms.
C16_DelayLength ==
    (last.ev = "call" /\ last.fn = "backoffDelay") =>
        LET n == last.arg[1]
            base == CASE n = 1 -> 2000 [] n = 2 -> 4000 [] n = 3 -> 8000
        IN  last.ret - base \in 0..199

\* C17: whenever no request is in flight (between two attempts, and after
\* the upload ended), controllerRef and startTimeRef are empty.
C17_RefsClearedWhenNoRequest ==
    (\A s \in Series : run[s].pc \notin {"inflight", "aborted"}) =>
        (controllerRef = NoController /\ startTimeRef = FALSE)

\* C18: an attempt that ends with a cancellation is the last attempt of its
\* upload, whatever its number: no upload keeps running (no backoff, no
\* further request) after it.
C18_Canceled(c) == c \in {"canceled", "reset", "teardown"}

C18_CancellationNotRetried ==
    /\ \A s \in Series :
          run[s].pc \in {"inflight", "backoff"} =>
              \A i \in DOMAIN run[s].log : ~C18_Canceled(run[s].log[i])
    /\ last.ev = "end" =>
          \A i \in DOMAIN last.log :
              C18_Canceled(last.log[i]) => i = Len(last.log)

C18_Witness ==
    /\ last.ev = "end"
    /\ last.log = <<"transient", "canceled">>

\* C19: at most one preview object URL is live at any time, and none after
\* the teardown of the component.
C19_Previews == {x \in liveUrls : x.use = "preview"}

C19_PreviewReleased ==
    /\ Cardinality(C19_Previews) <= 1
    /\ ~mounted => C19_Previews = {}

\* C20: whenever Widget State is success a result is stored; every upload
\* start leaves no result, and an upload that ends with a normalized result
\* ends in success with that result stored.
C20_SuccessHasResult ==
    /\ status = "success" => Len(result) = 1
    /\ last.ev = "start" => result = <<>>
    /\ EndedWith("ok") => (status = "success" /\ Len(result) = 1)

C20_Witness ==
    /\ last.ev = "end"
    /\ status = "success"
    /\ result = <<[prediction |-> "glioma"]>>
    /\ Cardinality(Running) = 1

\* C21: handleCancel ends the whole retry series: right after it no retry
\* series has a request outstanding or waits to issue one (also when it was
\* invoked during the backoff wait), and the upload it canceled does not end
\* in success or error.
C21_CancelEndsSeries ==
    /\ last.ev = "cancel" =>
          \A s \in Series : run[s].pc \notin {"inflight", "backoff"}
    /\ EndedWith("canceled") => status \notin {"success", "error"}

\* C22: once Widget State is idle with no file, no result and no violations
\* (the state resetAll produces), it stays so in every step that is neither a
\* file selection (a selection starts or its validation completes) nor an
\* upload trigger: no callback of an upload changes it.
C22_Idle ==
    /\ status = "idle"
    /\ file = NoFile
    /\ result = <<>>
    /\ errors = <<>>

C22_ResetIsStable ==
    [][(C22_Idle /\ pending' = pending /\ last'.ev # "start") => C22_Idle']_vars

\* C23: an upload that ends in success leaves a state in which a file is
\* selected and the stored result is the result of uploading that file, also
\* when another file was selected while the upload was running.
C23_ResultOfSelectedFile ==
    EndedWith("ok") =>
        /\ status = "success"
        /\ file # NoFile
        /\ file = last.f

\* C24: a validation that finds violations changes the violation list and
\* Widget State only: the selected file, its preview and the stored result
\* stay, and so do the uploads that are running; an upload that is started
\* uploads the selected file.
C24_FailedValidationKeepsSelection ==
    [][/\ (last'.ev = "validated" /\ Validator(last'.f) # <<>>) =>
            /\ status' = "error"
            /\ file' = file
            /\ previewUrl' = previewUrl
            /\ result' = result
            /\ run' = run
       /\ last'.ev = "start" =>
            /\ file' = file
            /\ \E s \in Series :
                  /\ run[s].pc = "idle"
                  /\ run'[s].pc = "inflight"
                  /\ run'[s].f = file]_vars

C24_Witness ==
    /\ last.ev = "validated"
    /\ last.f = ThumbPng
    /\ status = "error"
    /\ file = ScanPng
    /\ previewUrl # NoUrl

\* C25: once all validations have completed, the selected file is the most
\* recently chosen file among those that passed: the validation that
\* completes last does not select its file when a file chosen after it has
\* already been accepted.
C25_LatestChoiceWins ==
    (/\ last.ev = "validated"
     /\ pending = <<>>
     /\ Validator(last.f) = <<>>
     /\ last.newer # NoFile) => file = last.newer

\* C26: every object URL that validateDimensions creates is revoked when
\* validateDimensions returns: the only live ones are those of the calls
\* that are suspended on the decode.
C26_DecodeUrlsRevoked ==
    \A x \in liveUrls :
        x.use = "decode" => \E i \in DOMAIN pending : pending[i].url = x.url

====
